---- MODULE Spec2Model ----
(***************************************************************************)
(* The VFIO device driver of the kata-containers runtime                   *)
(* (src/runtime/pkg/device/drivers/vfio.go): the attach/detach state       *)
(* machine of a VFIODevice, the PCIe slot registry it fills, Save/Load,    *)
(* group-member BDF resolution and the host driver rebind protocol.        *)
(***************************************************************************)
EXTENDS Integers, Sequences, FiniteSets, TLC

(***************************************************************************)
(* Bounds of the model.                                                    *)
(***************************************************************************)
\* highest attach count a device is driven to
MaxAttach == 5
\* highest number of HotplugAddDevice / HotplugRemoveDevice invocations counted per device
MaxCalls == 2
\* most members of a device that is saved and loaded
MaxMembers == 3
\* longest resolved sysfs path, in characters, that group-member resolution is given
MaxPathLen == 6
\* most restarts a saved device is taken through
MaxRestores == 2

VARIABLES
    \* ---- device lifecycle (Attach / Detach) ----
    AttachCount,    \* GenericDevice.AttachCount of every device
    VfioDevs,       \* VFIODevice.VfioDevs of every device
    PCIeDevices,    \* config.PCIeDevices: port -> set of BDFs recorded for it
    hotAdds,        \* receiver: HotplugAddDevice invocations per device
    hotRemoves,     \* receiver: HotplugRemoveDevice invocations per device
    recvFailed,     \* receiver: some hotplug call for the device has failed
    held,           \* receiver: the devices it holds (appended or hot-added, not hot-removed)
    everAttached,   \* the devices on which some Attach has returned success
    issued,         \* port -> bus indices handed out so far
    firstRes,       \* port -> the first reservation of every BDF, in call order
    run,            \* per device: the calls so far are n Attach then m Detach, all successful
    last            \* the call that ran last: operation, device, outcome

lifeVars == <<AttachCount, VfioDevs, PCIeDevices, hotAdds, hotRemoves, recvFailed,
              held, everAttached, issued, firstRes, run, last>>

VARIABLES
    \* ---- two Attach calls running concurrently ----
    cpc,            \* per caller: where in Attach it is
    cloc,           \* per caller: the loop position and the busIndex it read
    cWriting,       \* port -> a write of that port's map is in progress
    cCrashed        \* the runtime has detected a concurrent map write and aborted

concVars == <<cpc, cloc, cWriting, cCrashed>>

VARIABLES
    \* ---- Save / Load ----
    ppc,            \* "built", "saved" or "loaded"
    pDev,           \* VfioDevs of the device that is saved
    pState,         \* DeviceState.VFIODevs that Save returned
    pLoaded,        \* VfioDevs of the fresh device that Load filled
    pGen            \* how many times the device has been rebuilt by Load

persistVars == <<ppc, pDev, pState, pLoaded, pGen>>

VARIABLES
    \* ---- host driver rebind over sysfs ----
    sysfs,          \* the driver the device is bound to, the IDs registered with vfio-pci
    bLast,          \* the rebind call that ran last
    bPrev           \* the rebind call before it

bindVars == <<sysfs, bLast, bPrev>>

VARIABLES
    \* ---- group-member resolution ----
    gIn,            \* the member file and what the host answers about it
    gOut            \* what GetVFIODetails returned for it, once it has run

parseVars == <<gIn, gOut>>

\* everything but the device lifecycle
otherVars == <<concVars, persistVars, bindVars, parseVars>>

vars == <<lifeVars, concVars, persistVars, bindVars, parseVars>>

(***************************************************************************)
(* Devices, ports and IOMMU groups.                                        *)
(***************************************************************************)
Devs == {"d1", "d2"}

RootPort == "root-port"
SwitchPort == "switch-port"
NoPort == "no-port"
Ports == {RootPort, SwitchPort}

\* config.PCIePortPrefixMapping as used by Attach to build the bus label
PCIePortPrefixMapping(port) == IF port = RootPort THEN "rp" ELSE "swdp"

VFIODeviceErrorType == "vfio-error"
VFIOPCIDeviceNormalType == "vfio-pci-normal"
VFIOPCIDeviceMediatedType == "vfio-pci-mediated"
VFIOAPDeviceMediatedType == "vfio-ap-mediated"

NoBus == <<>>

\* one config.VFIODev
VFIODev(id, type, bdf, sysfsDev, pcie, port) ==
    [ID |-> id, Type |-> type, BDF |-> bdf, SysfsDev |-> sysfsDev,
     IsPCIe |-> pcie, Port |-> port, Bus |-> NoBus]

\* DeviceInfo.ColdPlug: d1 is hot-plugged, d2 is cold-plugged
ColdPlug(d) == d = "d2"

\* What GetAllVFIODevicesFromIOMMUGroup resolves DeviceInfo.HostPath to when it
\* succeeds: every member of the device's IOMMU group, in directory order.
IOMMUGroup(d) ==
    IF d = "d1"
    THEN << VFIODev("d1-0", VFIOPCIDeviceNormalType, "0000:01:00.0", "/sys/bus/pci/devices/0000:01:00.0", TRUE, RootPort),
            VFIODev("d1-1", VFIOPCIDeviceNormalType, "0000:01:00.1", "/sys/bus/pci/devices/0000:01:00.1", TRUE, RootPort),
            VFIODev("d1-2", VFIOPCIDeviceMediatedType, "00:02.0", "/sys/devices/pci0000:00/0000:00:02.0/uuid-1", FALSE, NoPort) >>
    ELSE << VFIODev("d2-0", VFIOAPDeviceMediatedType, "", "/sys/devices/vfio_ap/matrix/uuid-2", FALSE, NoPort),
            VFIODev("d2-1", VFIOPCIDeviceNormalType, "0000:02:00.0", "/sys/bus/pci/devices/0000:02:00.0", TRUE, RootPort),
            VFIODev("d2-2", VFIOPCIDeviceNormalType, "0000:03:00.0", "/sys/bus/pci/devices/0000:03:00.0", TRUE, SwitchPort) >>

\* GetAllVFIODevicesFromIOMMUGroup: the resolved group, or nothing with an error
GetAllVFIODevicesFromIOMMUGroup(d, ok) ==
    IF ok THEN [devs |-> IOMMUGroup(d), err |-> FALSE]
          ELSE [devs |-> <<>>, err |-> TRUE]

(***************************************************************************)
(* The attach-count gate.                                                  *)
(***************************************************************************)
\* GenericDevice.bumpAttachCount: the new count, whether the real operation
\* is to be skipped, and whether the bump is refused.
bumpAttachCount(count, attach) ==
    IF attach
    THEN [count |-> count + 1, skip |-> count + 1 > 1, err |-> FALSE]
    ELSE IF count = 0
         THEN [count |-> count, skip |-> TRUE, err |-> TRUE]
         ELSE [count |-> count - 1, skip |-> count - 1 > 0, err |-> FALSE]

\* The first lines of Attach and of Detach: a refused bump returns its
\* error, a skipped call returns nil, anything else goes on.
EarlyReturnIgnoresSkip(b) == [returns |-> b.err, err |-> b.err]

EarlyReturnIgnoresError(b) == [returns |-> b.skip, err |-> FALSE]

EarlyReturn(b) == [returns |-> b.err \/ b.skip, err |-> b.err]

\* The deferred function of Attach (attach = TRUE) and of Detach: when the
\* call returns an error the inverse bump runs on the count.
DeferredBumpMissing(count, retErr, attach) == count

DeferredBump(count, retErr, attach) ==
    IF retErr THEN bumpAttachCount(count, ~attach).count ELSE count

(***************************************************************************)
(* PCIe slot reservation: the loop of Attach over the resolved members.    *)
(***************************************************************************)
\* (busIndex read after the BDF is recorded instead of before)
ReserveSlotCountsAfterInsert(vfio, reg) ==
    IF vfio.IsPCIe
    THEN LET busIndex == Cardinality(reg[vfio.Port] \cup {vfio.BDF})
         IN  [dev |-> [vfio EXCEPT !.Bus = <<PCIePortPrefixMapping(vfio.Port), busIndex>>],
              reg |-> [reg EXCEPT ![vfio.Port] = @ \cup {vfio.BDF}],
              log |-> << [port |-> vfio.Port, bdf |-> vfio.BDF, index |-> busIndex] >>]
    ELSE [dev |-> vfio, reg |-> reg, log |-> <<>>]

\* (the bus label not written to the member)
ReserveSlotLeavesBusUnset(vfio, reg) ==
    IF vfio.IsPCIe
    THEN LET busIndex == Cardinality(reg[vfio.Port])
         IN  [dev |-> vfio,
              reg |-> [reg EXCEPT ![vfio.Port] = @ \cup {vfio.BDF}],
              log |-> << [port |-> vfio.Port, bdf |-> vfio.BDF, index |-> busIndex] >>]
    ELSE [dev |-> vfio, reg |-> reg, log |-> <<>>]

\* (the port's map made anew for the BDF instead of added to)
ReserveSlotResetsPort(vfio, reg) ==
    IF vfio.IsPCIe
    THEN LET busIndex == Cardinality(reg[vfio.Port])
         IN  [dev |-> [vfio EXCEPT !.Bus = <<PCIePortPrefixMapping(vfio.Port), busIndex>>],
              reg |-> [reg EXCEPT ![vfio.Port] = {vfio.BDF}],
              log |-> << [port |-> vfio.Port, bdf |-> vfio.BDF, index |-> busIndex] >>]
    ELSE [dev |-> vfio, reg |-> reg, log |-> <<>>]

\* One iteration: busIndex is the number of BDFs recorded for the member's
\* port, the bus label is <prefix><busIndex>, then the BDF is recorded.
ReserveSlot(vfio, reg) ==
    IF vfio.IsPCIe
    THEN LET busIndex == Cardinality(reg[vfio.Port])
         IN  [dev |-> [vfio EXCEPT !.Bus = <<PCIePortPrefixMapping(vfio.Port), busIndex>>],
              reg |-> [reg EXCEPT ![vfio.Port] = @ \cup {vfio.BDF}],
              log |-> << [port |-> vfio.Port, bdf |-> vfio.BDF, index |-> busIndex] >>]
    ELSE [dev |-> vfio, reg |-> reg, log |-> <<>>]

RECURSIVE ReserveSlots(_, _)
\* The whole loop, members in order: the labelled members, the registry
\* afterwards and the reservations made, in call order.
ReserveSlots(devs, reg) ==
    IF devs = <<>>
    THEN [devs |-> <<>>, reg |-> reg, log |-> <<>>]
    ELSE LET one == ReserveSlot(Head(devs), reg)
             rest == ReserveSlots(Tail(devs), one.reg)
         IN  [devs |-> <<one.dev>> \o rest.devs, reg |-> rest.reg, log |-> one.log \o rest.log]

IndicesOf(log, port) == {log[i].index : i \in {j \in DOMAIN log : log[j].port = port}}

\* The reservations of `log` whose BDF the registry `reg` does not hold yet.
RECURSIVE FirstReservations(_, _)
FirstReservations(log, seen) ==
    IF log = <<>> THEN <<>>
    ELSE IF Head(log).bdf \in seen
         THEN FirstReservations(Tail(log), seen)
         ELSE <<Head(log)>> \o FirstReservations(Tail(log), seen \cup {Head(log).bdf})

OnPort(log, port) == SelectSeq(log, LAMBDA e : e.port = port)

NoCall == [op |-> "none", dev |-> "none", pre |-> 0, err |-> FALSE, skip |-> FALSE,
           calls |-> {}, log |-> <<>>, regBefore |-> [p \in Ports |-> {}],
           vfioBefore |-> <<>>]

\* A call on device d: what the caller and the receiver saw of it.
Call(op, d, err, skip, calls, log) ==
    [op |-> op, dev |-> d, pre |-> AttachCount[d], err |-> err, skip |-> skip,
     calls |-> calls, log |-> log, regBefore |-> PCIeDevices, vfioBefore |-> VfioDevs[d]]

NoRun == [att |-> 0, det |-> 0, ok |-> FALSE]

\* The run of device d after one more call: n successful Attach calls
\* followed by m successful Detach calls, or no such run any more.
RunAfter(d, op, err) ==
    LET r == run[d]
    IN  IF ~r.ok \/ err THEN NoRun
        ELSE IF op = "Attach"
             THEN (IF r.det = 0 THEN [r EXCEPT !.att = @ + 1] ELSE NoRun)
             ELSE [r EXCEPT !.det = @ + 1]

Procs == {"p1", "p2"}

\* The two callers attach different devices.
ProcDev(p) == IF p = "p1" THEN "d1" ELSE "d2"

ConcIdle ==
    /\ cpc = [p \in Procs |-> "idle"]
    /\ cloc = [p \in Procs |-> [i |-> 1, busIndex |-> 0, err |-> FALSE]]
    /\ cWriting = [p \in Ports |-> FALSE]
    /\ cCrashed = FALSE

NoDriver == "none"
VfioPci == "vfio-pci"

NoBind == [op |-> "none", hostDriver |-> "", id |-> "", err |-> FALSE, ret |-> "",
           writes |-> <<>>, pre |-> [driver |-> NoDriver, ids |-> {}]]

BindIdle ==
    /\ sysfs = [driver |-> NoDriver, ids |-> {}]
    /\ bLast = NoBind
    /\ bPrev = NoBind

NoDetails == [ran |-> FALSE, deviceBDF |-> <<>>, deviceSysfsDev |-> <<>>,
              vfioDeviceType |-> VFIODeviceErrorType, err |-> FALSE]

ParseIdle ==
    /\ gIn = [deviceFileName |-> <<>>, type |-> VFIODeviceErrorType, typeErr |-> FALSE,
              realPath |-> <<>>, linkErr |-> FALSE]
    /\ gOut = NoDetails

PersistIdle ==
    /\ ppc = "built"
    /\ pDev = <<>>
    /\ pState = <<>>
    /\ pLoaded = <<>>
    /\ pGen = 0

\* The state of the device lifecycle right after NewVFIODevice.
LifeIdle ==
    /\ AttachCount = [d \in Devs |-> 0]
    /\ VfioDevs = [d \in Devs |-> <<>>]
    /\ PCIeDevices = [p \in Ports |-> {}]
    /\ hotAdds = [d \in Devs |-> 0]
    /\ hotRemoves = [d \in Devs |-> 0]
    /\ recvFailed = [d \in Devs |-> FALSE]
    /\ held = {}
    /\ everAttached = {}
    /\ issued = [p \in Ports |-> {}]
    /\ firstRes = [p \in Ports |-> <<>>]
    /\ last = NoCall

Init ==
    /\ ConcIdle
    /\ PersistIdle
    /\ BindIdle
    /\ ParseIdle
    /\ AttachCount = [d \in Devs |-> 0]
    /\ VfioDevs = [d \in Devs |-> <<>>]
    /\ PCIeDevices = [p \in Ports |-> {}]
    /\ hotAdds = [d \in Devs |-> 0]
    /\ hotRemoves = [d \in Devs |-> 0]
    /\ recvFailed = [d \in Devs |-> FALSE]
    /\ held = {}
    /\ everAttached = {}
    /\ issued = [p \in Ports |-> {}]
    /\ firstRes = [p \in Ports |-> <<>>]
    /\ run = [d \in Devs |-> [att |-> 0, det |-> 0, ok |-> TRUE]]
    /\ last = NoCall

(***************************************************************************)
(* VFIODevice.Attach                                                       *)
(***************************************************************************)
\* Attach that the gate refuses or skips: only the count changes.
AttachSkipped(d) ==
    LET b == bumpAttachCount(AttachCount[d], TRUE)
        e == EarlyReturn(b)
    IN  /\ AttachCount[d] < MaxAttach
        /\ UNCHANGED otherVars
        /\ e.returns
        /\ AttachCount' = [AttachCount EXCEPT ![d] = b.count]
        /\ everAttached' = IF e.err THEN everAttached ELSE everAttached \cup {d}
        /\ last' = Call("Attach", d, e.err, TRUE, {}, <<>>)
        /\ run' = [run EXCEPT ![d] = RunAfter(d, "Attach", e.err)]
        /\ UNCHANGED <<VfioDevs, PCIeDevices, hotAdds, hotRemoves, recvFailed, held, issued, firstRes>>

\* Attach whose group resolution fails: the deferred inverse bump runs.
AttachResolveFails(d) ==
    LET b == bumpAttachCount(AttachCount[d], TRUE)
        g == GetAllVFIODevicesFromIOMMUGroup(d, FALSE)
    IN  /\ AttachCount[d] < MaxAttach
        /\ UNCHANGED otherVars
        /\ ~EarlyReturn(b).returns
        /\ VfioDevs' = [VfioDevs EXCEPT ![d] = g.devs]
        /\ AttachCount' = [AttachCount EXCEPT ![d] = DeferredBump(b.count, g.err, TRUE)]
        /\ last' = Call("Attach", d, g.err, FALSE, {}, <<>>)
        /\ run' = [run EXCEPT ![d] = RunAfter(d, "Attach", g.err)]
        /\ UNCHANGED <<PCIeDevices, hotAdds, hotRemoves, recvFailed, held, everAttached,
                       issued, firstRes>>

\* Attach that resolves the group, reserves the PCIe slots and hands the
\* device to the receiver: AppendDevice when cold-plugged, HotplugAddDevice
\* otherwise; recvOK is the receiver's answer.
AttachReal(d, recvOK) ==
    LET b == bumpAttachCount(AttachCount[d], TRUE)
        g == GetAllVFIODevicesFromIOMMUGroup(d, TRUE)
        r == ReserveSlots(g.devs, PCIeDevices)
    IN  /\ AttachCount[d] < MaxAttach
        /\ UNCHANGED otherVars
        /\ ~EarlyReturn(b).returns
        /\ VfioDevs' = [VfioDevs EXCEPT ![d] = r.devs]
        /\ PCIeDevices' = r.reg
        /\ issued' = [p \in Ports |-> issued[p] \cup IndicesOf(r.log, p)]
        /\ IF ColdPlug(d)
           THEN UNCHANGED <<hotAdds, recvFailed>>
           ELSE /\ hotAdds[d] < MaxCalls
                /\ hotAdds' = [hotAdds EXCEPT ![d] = @ + 1]
                /\ recvFailed' = [recvFailed EXCEPT ![d] = @ \/ ~recvOK]
        /\ held' = IF recvOK THEN held \cup {d} ELSE held
        /\ everAttached' = IF recvOK THEN everAttached \cup {d} ELSE everAttached
        /\ AttachCount' = [AttachCount EXCEPT ![d] = DeferredBump(b.count, ~recvOK, TRUE)]
        /\ firstRes' = [p \in Ports |->
                           firstRes[p] \o FirstReservations(OnPort(r.log, p), PCIeDevices[p])]
        /\ last' = Call("Attach", d, ~recvOK, FALSE,
                        IF ColdPlug(d) THEN {"AppendDevice"} ELSE {"HotplugAddDevice"}, r.log)
        /\ run' = [run EXCEPT ![d] = RunAfter(d, "Attach", ~recvOK)]
        /\ UNCHANGED hotRemoves

Attach(d) ==
    \/ AttachSkipped(d)
    \/ AttachResolveFails(d)
    \/ \E recvOK \in BOOLEAN : AttachReal(d, recvOK)

(***************************************************************************)
(* VFIODevice.Detach                                                       *)
(***************************************************************************)
\* (the cold-plug test of Detach left out)
ColdPlugIgnored(d) == FALSE

\* The cold-plug test of Detach: nothing to detach, the device was cold plugged.
NothingToDetach(d) == ColdPlug(d)

\* Detach that the gate refuses (count already zero) or skips.
DetachSkipped(d) ==
    LET b == bumpAttachCount(AttachCount[d], FALSE)
        e == EarlyReturn(b)
    IN  /\ UNCHANGED otherVars
        /\ e.returns
        /\ AttachCount' = [AttachCount EXCEPT ![d] = b.count]
        /\ last' = Call("Detach", d, e.err, TRUE, {}, <<>>)
        /\ run' = [run EXCEPT ![d] = RunAfter(d, "Detach", e.err)]
        /\ UNCHANGED <<VfioDevs, PCIeDevices, hotAdds, hotRemoves, recvFailed, held, everAttached,
                       issued, firstRes>>

\* Detach of a cold-plugged device: nothing to hot-remove.
DetachColdPlug(d) ==
    LET b == bumpAttachCount(AttachCount[d], FALSE)
    IN  /\ UNCHANGED otherVars
        /\ ~EarlyReturn(b).returns
        /\ NothingToDetach(d)
        /\ AttachCount' = [AttachCount EXCEPT ![d] = DeferredBump(b.count, FALSE, FALSE)]
        /\ last' = Call("Detach", d, FALSE, FALSE, {}, <<>>)
        /\ run' = [run EXCEPT ![d] = RunAfter(d, "Detach", FALSE)]
        /\ UNCHANGED <<VfioDevs, PCIeDevices, hotAdds, hotRemoves, recvFailed, held, everAttached,
                       issued, firstRes>>

\* Detach of a hot-plugged device: HotplugRemoveDevice, and the deferred
\* inverse bump when the receiver fails.
DetachReal(d, recvOK) ==
    LET b == bumpAttachCount(AttachCount[d], FALSE)
    IN  /\ UNCHANGED otherVars
        /\ ~EarlyReturn(b).returns
        /\ ~NothingToDetach(d)
        /\ hotRemoves[d] < MaxCalls
        /\ hotRemoves' = [hotRemoves EXCEPT ![d] = @ + 1]
        /\ recvFailed' = [recvFailed EXCEPT ![d] = @ \/ ~recvOK]
        /\ AttachCount' = [AttachCount EXCEPT ![d] = DeferredBump(b.count, ~recvOK, FALSE)]
        /\ last' = Call("Detach", d, ~recvOK, FALSE, {"HotplugRemoveDevice"}, <<>>)
        /\ run' = [run EXCEPT ![d] = RunAfter(d, "Detach", ~recvOK)]
        /\ held' = IF recvOK THEN held \ {d} ELSE held
        /\ UNCHANGED <<VfioDevs, PCIeDevices, hotAdds, everAttached, issued, firstRes>>

Detach(d) ==
    \/ DetachSkipped(d)
    \/ DetachColdPlug(d)
    \/ \E recvOK \in BOOLEAN : DetachReal(d, recvOK)

Next ==
    \/ \E d \in Devs : Attach(d)
    \/ \E d \in Devs : Detach(d)

Spec == Init /\ [][Next]_vars

(***************************************************************************)
(* Attach, statement by statement, for callers that run concurrently.      *)
(* Attach takes no lock around config.PCIeDevices: reading the length of   *)
(* a port's map and writing that map are separate steps, and a map write   *)
(* that the runtime finds overlapping another one is a fatal error.        *)
(***************************************************************************)
\* The state after the devices of `pre` were attached one after the other.
AttachedBefore(pre) ==
    LET g1 == IF "d1" \in pre THEN ReserveSlots(IOMMUGroup("d1"), [p \in Ports |-> {}])
                              ELSE [devs |-> <<>>, reg |-> [p \in Ports |-> {}], log |-> <<>>]
        g2 == IF "d2" \in pre THEN ReserveSlots(IOMMUGroup("d2"), g1.reg)
                              ELSE [devs |-> <<>>, reg |-> g1.reg, log |-> <<>>]
    IN  [count |-> [d \in Devs |-> IF d \in pre THEN 1 ELSE 0],
         devs |-> [d \in Devs |-> IF d = "d1" THEN g1.devs ELSE g2.devs],
         reg |-> g2.reg]

InitConc ==
    /\ ConcIdle
    /\ PersistIdle
    /\ BindIdle
    /\ ParseIdle
    /\ \E pre \in SUBSET Devs :
           LET a == AttachedBefore(pre)
           IN  /\ AttachCount = a.count
               /\ VfioDevs = a.devs
               /\ PCIeDevices = a.reg
    /\ hotAdds = [d \in Devs |-> 0]
    /\ hotRemoves = [d \in Devs |-> 0]
    /\ recvFailed = [d \in Devs |-> FALSE]
    /\ held = {}
    /\ everAttached = {}
    /\ issued = [p \in Ports |-> {}]
    /\ firstRes = [p \in Ports |-> <<>>]
    /\ run = [d \in Devs |-> NoRun]
    /\ last = NoCall

ghostVars == <<hotRemoves, held, everAttached, issued, firstRes, run, last,
               persistVars, bindVars, parseVars>>

\* bumpAttachCount(true) and the two early returns.
AttachBump(p) ==
    LET d == ProcDev(p)
        b == bumpAttachCount(AttachCount[d], TRUE)
        e == EarlyReturn(b)
    IN  /\ ~cCrashed /\ cpc[p] = "idle"
        /\ UNCHANGED ghostVars
        /\ AttachCount' = [AttachCount EXCEPT ![d] = b.count]
        /\ cpc' = [cpc EXCEPT ![p] = IF e.returns THEN "done" ELSE "resolve"]
        /\ cloc' = [cloc EXCEPT ![p].err = e.err]
        /\ UNCHANGED <<VfioDevs, PCIeDevices, hotAdds, recvFailed, cWriting, cCrashed>>

\* device.VfioDevs, err = GetAllVFIODevicesFromIOMMUGroup(...)
AttachResolve(p) ==
    LET d == ProcDev(p)
    IN  /\ ~cCrashed /\ cpc[p] = "resolve"
        /\ UNCHANGED ghostVars
        /\ \E ok \in BOOLEAN :
               LET g == GetAllVFIODevicesFromIOMMUGroup(d, ok)
               IN  /\ VfioDevs' = [VfioDevs EXCEPT ![d] = g.devs]
                   /\ AttachCount' = [AttachCount EXCEPT ![d] = DeferredBump(@, g.err, TRUE)]
                   /\ cpc' = [cpc EXCEPT ![p] = IF g.err THEN "done" ELSE "loop"]
                   /\ cloc' = [cloc EXCEPT ![p] = [i |-> 1, busIndex |-> 0, err |-> g.err]]
        /\ UNCHANGED <<PCIeDevices, hotAdds, recvFailed, cWriting, cCrashed>>

\* The loop head and, for a PCIe member, busIndex := len(PCIeDevices[port])
\* and the bus label built from it.
AttachReadLen(p) ==
    LET d == ProcDev(p)
        i == cloc[p].i
    IN  /\ ~cCrashed /\ cpc[p] = "loop"
        /\ UNCHANGED ghostVars
        /\ IF i > Len(VfioDevs[d])
           THEN /\ cpc' = [cpc EXCEPT ![p] = "receiver"]
                /\ UNCHANGED <<cloc, VfioDevs>>
           ELSE IF VfioDevs[d][i].IsPCIe
                THEN LET busIndex == Cardinality(PCIeDevices[VfioDevs[d][i].Port])
                     IN  /\ cloc' = [cloc EXCEPT ![p].busIndex = busIndex]
                         /\ VfioDevs' = [VfioDevs EXCEPT ![d][i].Bus =
                                <<PCIePortPrefixMapping(VfioDevs[d][i].Port), busIndex>>]
                         /\ cpc' = [cpc EXCEPT ![p] = "assign"]
                ELSE /\ cloc' = [cloc EXCEPT ![p].i = i + 1]
                     /\ UNCHANGED <<cpc, VfioDevs>>
        /\ UNCHANGED <<AttachCount, PCIeDevices, hotAdds, recvFailed, cWriting, cCrashed>>

\* PCIeDevices[port][bdf] = true, first half: the runtime marks the map as
\* being written.
AttachAssignBegin(p) ==
    LET d == ProcDev(p)
        port == VfioDevs[d][cloc[p].i].Port
    IN  /\ ~cCrashed /\ cpc[p] = "assign"
        /\ UNCHANGED ghostVars
        /\ cWriting' = [cWriting EXCEPT ![port] = TRUE]
        /\ cpc' = [cpc EXCEPT ![p] = "assigning"]
        /\ UNCHANGED <<AttachCount, VfioDevs, PCIeDevices, hotAdds, recvFailed, cloc, cCrashed>>

\* PCIeDevices[port][bdf] = true, second half: the entry is stored and the
\* mark cleared.
AttachAssignEnd(p) ==
    LET d == ProcDev(p)
        vfio == VfioDevs[d][cloc[p].i]
    IN  /\ ~cCrashed /\ cpc[p] = "assigning"
        /\ UNCHANGED ghostVars
        /\ PCIeDevices' = [PCIeDevices EXCEPT ![vfio.Port] = @ \cup {vfio.BDF}]
        /\ cWriting' = [cWriting EXCEPT ![vfio.Port] = FALSE]
        /\ cloc' = [cloc EXCEPT ![p].i = @ + 1]
        /\ cpc' = [cpc EXCEPT ![p] = "loop"]
        /\ UNCHANGED <<AttachCount, VfioDevs, hotAdds, recvFailed, cCrashed>>

\* The runtime's check when a map write starts: the map is already marked
\* as being written by the other caller, a fatal error.  The check reads the
\* mark without synchronisation, so it may also miss it (AttachAssignBegin).
ConcurrentWriteFatalAtBegin(p) ==
    LET d == ProcDev(p)
    IN  /\ ~cCrashed /\ cpc[p] = "assign"
        /\ cWriting[VfioDevs[d][cloc[p].i].Port]
        /\ cCrashed' = TRUE
        /\ UNCHANGED <<lifeVars, cpc, cloc, cWriting, persistVars, bindVars, parseVars>>

\* The runtime's check when a map write ends: the mark was cleared by the
\* other caller's write meanwhile, a fatal error, or missed (AttachAssignEnd).
ConcurrentWriteFatalAtEnd(p) ==
    LET d == ProcDev(p)
    IN  /\ ~cCrashed /\ cpc[p] = "assigning"
        /\ ~cWriting[VfioDevs[d][cloc[p].i].Port]
        /\ cCrashed' = TRUE
        /\ UNCHANGED <<lifeVars, cpc, cloc, cWriting, persistVars, bindVars, parseVars>>

\* AppendDevice or HotplugAddDevice, and the deferred bump on failure.
AttachReceiver(p) ==
    LET d == ProcDev(p)
    IN  /\ ~cCrashed /\ cpc[p] = "receiver"
        /\ UNCHANGED ghostVars
        /\ \E recvOK \in BOOLEAN :
               /\ AttachCount' = [AttachCount EXCEPT ![d] = DeferredBump(@, ~recvOK, TRUE)]
               /\ cloc' = [cloc EXCEPT ![p].err = ~recvOK]
               /\ IF ColdPlug(d)
                  THEN UNCHANGED <<hotAdds, recvFailed>>
                  ELSE /\ hotAdds' = [hotAdds EXCEPT ![d] = @ + 1]
                       /\ recvFailed' = [recvFailed EXCEPT ![d] = @ \/ ~recvOK]
        /\ cpc' = [cpc EXCEPT ![p] = "done"]
        /\ UNCHANGED <<VfioDevs, PCIeDevices, cWriting, cCrashed>>

NextConc ==
    \/ \E p \in Procs : AttachBump(p)
    \/ \E p \in Procs : AttachResolve(p)
    \/ \E p \in Procs : AttachReadLen(p)
    \/ \E p \in Procs : AttachAssignBegin(p)
    \/ \E p \in Procs : AttachAssignEnd(p)
    \/ \E p \in Procs : ConcurrentWriteFatalAtBegin(p)
    \/ \E p \in Procs : ConcurrentWriteFatalAtEnd(p)
    \/ \E p \in Procs : AttachReceiver(p)

SpecConc == InitConc /\ [][NextConc]_vars

(***************************************************************************)
(* VFIODevice.Save and VFIODevice.Load                                     *)
(***************************************************************************)
\* a nil *config.VFIODev
NilDev == [ID |-> "nil"]

\* Save: ds.VFIODevs gets every non-nil member of VfioDevs, in order.
Save(devs) == SelectSeq(devs, LAMBDA dev : dev # NilDev)

\* The zero value of config.VFIODev, which Load starts every member from.
ZeroVFIODev ==
    [ID |-> "", Type |-> VFIODeviceErrorType, BDF |-> "", SysfsDev |-> "",
     IsPCIe |-> FALSE, Port |-> "", Bus |-> NoBus]

\* (the BDF left out of the PCI case of Load)
LoadOneDropsBDF(dev) ==
    IF dev.Type \in {VFIOPCIDeviceNormalType, VFIOPCIDeviceMediatedType}
    THEN [ok |-> TRUE,
          vfio |-> [ZeroVFIODev EXCEPT !.ID = dev.ID, !.Type = dev.Type, !.SysfsDev = dev.SysfsDev]]
    ELSE IF dev.Type = VFIOAPDeviceMediatedType
         THEN [ok |-> TRUE,
               vfio |-> [ZeroVFIODev EXCEPT !.ID = dev.ID, !.SysfsDev = dev.SysfsDev]]
         ELSE [ok |-> FALSE, vfio |-> ZeroVFIODev]

\* The switch of Load on one persisted record: the member it builds, or
\* not ok for an unrecognized type.
LoadOne(dev) ==
    IF dev.Type \in {VFIOPCIDeviceNormalType, VFIOPCIDeviceMediatedType}
    THEN [ok |-> TRUE,
          vfio |-> [ZeroVFIODev EXCEPT !.ID = dev.ID, !.Type = dev.Type,
                                       !.BDF = dev.BDF, !.SysfsDev = dev.SysfsDev]]
    ELSE IF dev.Type = VFIOAPDeviceMediatedType
         THEN [ok |-> TRUE,
               vfio |-> [ZeroVFIODev EXCEPT !.ID = dev.ID, !.SysfsDev = dev.SysfsDev]]
         ELSE [ok |-> FALSE, vfio |-> ZeroVFIODev]

RECURSIVE Load(_, _)
\* Load: the loop over ds.VFIODevs appending to device.VfioDevs; an
\* unrecognized type is logged and the function returns.
Load(records, vfioDevs) ==
    IF records = <<>> THEN vfioDevs
    ELSE LET one == LoadOne(Head(records))
         IN  IF one.ok THEN Load(Tail(records), Append(vfioDevs, one.vfio))
                       ELSE vfioDevs

\* The members a successful Attach leaves in VfioDevs: those of the IOMMU
\* groups, bus labels set.
AttachedMembers ==
    LET g1 == ReserveSlots(IOMMUGroup("d1"), [p \in Ports |-> {}])
        g2 == ReserveSlots(IOMMUGroup("d2"), g1.reg)
    IN  {g1.devs[i] : i \in DOMAIN g1.devs} \cup {g2.devs[i] : i \in DOMAIN g2.devs}

SeqsUpTo(S, n) == UNION {[1..k -> S] : k \in 0..n}

InitPersist ==
    /\ ConcIdle
    /\ BindIdle
    /\ ParseIdle
    /\ LifeIdle
    /\ run = [d \in Devs |-> NoRun]
    /\ ppc = "built"
    /\ pDev \in SeqsUpTo(AttachedMembers, MaxMembers)
    /\ pState = <<>>
    /\ pLoaded = <<>>
    /\ pGen = 0

\* The runtime checkpoints the device.
DoSave ==
    /\ ppc = "built"
    /\ pState' = Save(pDev)
    /\ ppc' = "saved"
    /\ UNCHANGED <<pDev, pLoaded, pGen, lifeVars, concVars, bindVars, parseVars>>

\* The restarted runtime loads the state into a fresh VFIODevice.
DoLoad ==
    /\ ppc = "saved"
    /\ pLoaded' = Load(pState, <<>>)
    /\ ppc' = "loaded"
    /\ UNCHANGED <<pDev, pState, pGen, lifeVars, concVars, bindVars, parseVars>>

\* The restarted runtime goes on with the device that Load rebuilt.
Restored ==
    /\ ppc = "loaded"
    /\ pGen < MaxRestores
    /\ pGen' = pGen + 1
    /\ pDev' = pLoaded
    /\ pState' = <<>>
    /\ pLoaded' = <<>>
    /\ ppc' = "built"
    /\ UNCHANGED <<lifeVars, concVars, bindVars, parseVars>>

NextPersist == DoSave \/ DoLoad \/ Restored

SpecPersist == InitPersist /\ [][NextPersist]_vars

(***************************************************************************)
(* Attach and Detach on devices that restarts of the runtime save and      *)
(* rebuild by Load in between.                                             *)
(***************************************************************************)
\* GenericDevice.Save and GenericDevice.Load: the attach count goes into the
\* persisted state and comes back from it.
GenericDeviceLoad(attachCount) == attachCount

\* The runtime saves device d and, restarted, rebuilds it by Load into a
\* fresh VFIODevice that takes the place of d.
LoadSaved(d) ==
    /\ VfioDevs' = [VfioDevs EXCEPT ![d] = Load(Save(@), <<>>)]
    /\ AttachCount' = [AttachCount EXCEPT ![d] = GenericDeviceLoad(@)]
    /\ last' = Call("Load", d, FALSE, FALSE, {}, <<>>)
    /\ run' = [run EXCEPT ![d] = NoRun]
    /\ UNCHANGED <<PCIeDevices, hotAdds, hotRemoves, recvFailed, held, everAttached,
                   issued, firstRes>>
    /\ UNCHANGED otherVars

NextRestore ==
    \/ \E d \in Devs : Attach(d)
    \/ \E d \in Devs : Detach(d)
    \/ \E d \in Devs : LoadSaved(d)

SpecRestore == Init /\ [][NextRestore]_vars

(***************************************************************************)
(* Attach and Detach of two logical owners on one hot-plug device, running *)
(* concurrently.  bumpAttachCount is one atomic step; what a call does     *)
(* after it (resolution, slots, receiver call, deferred bump) is another.  *)
(***************************************************************************)
\* the device the owners share
OwnedDev == "d1"

\* what the owner steps leave alone
ownerFrame == <<issued, firstRes, run, cloc, cWriting, cCrashed, persistVars, bindVars, parseVars>>

\* Attach up to its early returns: the bump, then return or go on.
OwnerAttachBump(p) ==
    LET d == OwnedDev
        b == bumpAttachCount(AttachCount[d], TRUE)
        e == EarlyReturn(b)
    IN  /\ cpc[p] = "idle"
        /\ AttachCount[d] < MaxAttach
        /\ AttachCount' = [AttachCount EXCEPT ![d] = b.count]
        /\ cpc' = [cpc EXCEPT ![p] = IF e.returns THEN "idle" ELSE "attaching"]
        /\ everAttached' = IF e.returns /\ ~e.err THEN everAttached \cup {d} ELSE everAttached
        /\ last' = IF e.returns THEN Call("Attach", d, e.err, TRUE, {}, <<>>) ELSE last
        /\ UNCHANGED <<VfioDevs, PCIeDevices, hotAdds, hotRemoves, recvFailed, held>>
        /\ UNCHANGED ownerFrame

\* The rest of an Attach whose group resolution fails.
OwnerAttachResolveFails(p) ==
    LET d == OwnedDev
        g == GetAllVFIODevicesFromIOMMUGroup(d, FALSE)
    IN  /\ cpc[p] = "attaching"
        /\ VfioDevs' = [VfioDevs EXCEPT ![d] = g.devs]
        /\ AttachCount' = [AttachCount EXCEPT ![d] = DeferredBump(@, g.err, TRUE)]
        /\ cpc' = [cpc EXCEPT ![p] = "idle"]
        /\ last' = Call("Attach", d, g.err, FALSE, {}, <<>>)
        /\ UNCHANGED <<PCIeDevices, hotAdds, hotRemoves, recvFailed, held, everAttached>>
        /\ UNCHANGED ownerFrame

\* The rest of an Attach that resolves the group: slots, HotplugAddDevice,
\* and the deferred bump when the receiver fails.
OwnerAttachReal(p, recvOK) ==
    LET d == OwnedDev
        g == GetAllVFIODevicesFromIOMMUGroup(d, TRUE)
        r == ReserveSlots(g.devs, PCIeDevices)
    IN  /\ cpc[p] = "attaching"
        /\ hotAdds[d] < MaxCalls
        /\ VfioDevs' = [VfioDevs EXCEPT ![d] = r.devs]
        /\ PCIeDevices' = r.reg
        /\ hotAdds' = [hotAdds EXCEPT ![d] = @ + 1]
        /\ recvFailed' = [recvFailed EXCEPT ![d] = @ \/ ~recvOK]
        /\ held' = IF recvOK THEN held \cup {d} ELSE held
        /\ everAttached' = IF recvOK THEN everAttached \cup {d} ELSE everAttached
        /\ AttachCount' = [AttachCount EXCEPT ![d] = DeferredBump(@, ~recvOK, TRUE)]
        /\ cpc' = [cpc EXCEPT ![p] = "idle"]
        /\ last' = Call("Attach", d, ~recvOK, FALSE, {"HotplugAddDevice"}, r.log)
        /\ UNCHANGED hotRemoves
        /\ UNCHANGED ownerFrame

\* Detach up to its early returns.
OwnerDetachBump(p) ==
    LET d == OwnedDev
        b == bumpAttachCount(AttachCount[d], FALSE)
        e == EarlyReturn(b)
    IN  /\ cpc[p] = "idle"
        /\ AttachCount' = [AttachCount EXCEPT ![d] = b.count]
        /\ cpc' = [cpc EXCEPT ![p] = IF e.returns THEN "idle" ELSE "detaching"]
        /\ last' = IF e.returns THEN Call("Detach", d, e.err, TRUE, {}, <<>>) ELSE last
        /\ UNCHANGED <<VfioDevs, PCIeDevices, hotAdds, hotRemoves, recvFailed, held, everAttached>>
        /\ UNCHANGED ownerFrame

\* The rest of a Detach: HotplugRemoveDevice, and the deferred bump when
\* the receiver fails.
OwnerDetachReal(p, recvOK) ==
    LET d == OwnedDev
    IN  /\ cpc[p] = "detaching"
        /\ ~NothingToDetach(d)
        /\ hotRemoves[d] < MaxCalls
        /\ hotRemoves' = [hotRemoves EXCEPT ![d] = @ + 1]
        /\ recvFailed' = [recvFailed EXCEPT ![d] = @ \/ ~recvOK]
        /\ held' = IF recvOK THEN held \ {d} ELSE held
        /\ AttachCount' = [AttachCount EXCEPT ![d] = DeferredBump(@, ~recvOK, FALSE)]
        /\ cpc' = [cpc EXCEPT ![p] = "idle"]
        /\ last' = Call("Detach", d, ~recvOK, FALSE, {"HotplugRemoveDevice"}, <<>>)
        /\ UNCHANGED <<VfioDevs, PCIeDevices, hotAdds, everAttached>>
        /\ UNCHANGED ownerFrame

NextOwners ==
    \/ \E p \in Procs : OwnerAttachBump(p)
    \/ \E p \in Procs : OwnerAttachResolveFails(p)
    \/ \E p \in Procs, recvOK \in BOOLEAN : OwnerAttachReal(p, recvOK)
    \/ \E p \in Procs : OwnerDetachBump(p)
    \/ \E p \in Procs, recvOK \in BOOLEAN : OwnerDetachReal(p, recvOK)

SpecOwners == Init /\ [][NextOwners]_vars

(***************************************************************************)
(* BindDevicetoVFIO and BindDevicetoHost over the sysfs control files of   *)
(* one PCI device.  A write to a control file does what the kernel's PCI   *)
(* driver core does with it, or fails and changes nothing.                 *)
(***************************************************************************)
\* the device the calls are about, its vendor:device ID and its IOMMU group
DeviceID == "8086 10fb"
OtherID == "8086 1521"
IOMMUGroupLink == "../../../kernel/iommu_groups/42"

HostDrivers == {"ixgbe", "uio_pci_generic"}
VendorDeviceIDs == {DeviceID, OtherID}

\* filepath.Base of the iommu_group link
Base(link) == IF link = IOMMUGroupLink THEN "42" ELSE link

\* fmt.Sprintf(vfioDevPath, group)
VfioDevPath(group) == <<"/dev/vfio/", group>>

\* pciDriverUnbindPath: the file exists while a driver is bound; writing the
\* BDF releases the device from it.
WriteUnbind(sys, ok) ==
    IF ok /\ sys.driver # NoDriver
    THEN [ok |-> TRUE, sys |-> [sys EXCEPT !.driver = NoDriver]]
    ELSE [ok |-> FALSE, sys |-> sys]

\* vfioNewIDPath: registers the ID with vfio-pci, refusing one it already
\* has; the driver core then probes unbound devices of that ID, which binds
\* the device to vfio-pci when the probe succeeds.
WriteNewID(sys, id, ok, probe) ==
    IF ok /\ id \notin sys.ids
    THEN [ok |-> TRUE,
          sys |-> [ids |-> sys.ids \cup {id},
                   driver |-> IF sys.driver = NoDriver /\ id = DeviceID /\ probe
                              THEN VfioPci ELSE sys.driver]]
    ELSE [ok |-> FALSE, sys |-> sys]

\* pciDriverBindPath: binds the unbound device to the driver when the driver
\* matches it: vfio-pci by the registered IDs, a host driver by its own table.
WriteBind(sys, driver, ok) ==
    IF /\ ok
       /\ sys.driver = NoDriver
       /\ (driver = VfioPci => DeviceID \in sys.ids)
    THEN [ok |-> TRUE, sys |-> [sys EXCEPT !.driver = driver]]
    ELSE [ok |-> FALSE, sys |-> sys]

\* vfioRemoveIDPath: removes a registered ID.
WriteRemoveID(sys, id, ok) ==
    IF ok /\ id \in sys.ids
    THEN [ok |-> TRUE, sys |-> [sys EXCEPT !.ids = @ \ {id}]]
    ELSE [ok |-> FALSE, sys |-> sys]

\* One finished rebind call.
BindResult(op, hostDriver, id, err, ret, writes, pre, sys) ==
    [call |-> [op |-> op, hostDriver |-> hostDriver, id |-> id, err |-> err, ret |-> ret,
               writes |-> writes, pre |-> pre],
     sys |-> sys]

\* (a failed vfio-pci bind write returned as an error)
BindDevicetoVFIOBindFatal(sys, hostDriver, id, f) ==
    LET u == WriteUnbind(sys, f.first)
        n == WriteNewID(u.sys, id, f.second, f.probe)
        b == WriteBind(n.sys, VfioPci, f.third)
    IN  IF ~u.ok
        THEN BindResult("BindDevicetoVFIO", hostDriver, id, TRUE, "",
                        << <<"unbind", FALSE>> >>, sys, u.sys)
        ELSE IF ~n.ok
        THEN BindResult("BindDevicetoVFIO", hostDriver, id, TRUE, "",
                        << <<"unbind", TRUE>>, <<"new_id", FALSE>> >>, sys, n.sys)
        ELSE IF ~b.ok
        THEN BindResult("BindDevicetoVFIO", hostDriver, id, TRUE, "",
                        << <<"unbind", TRUE>>, <<"new_id", TRUE>>, <<"bind vfio-pci", FALSE>> >>,
                        sys, b.sys)
        ELSE BindResult("BindDevicetoVFIO", hostDriver, id, ~f.link,
                        IF f.link THEN VfioDevPath(Base(IOMMUGroupLink)) ELSE "",
                        << <<"unbind", TRUE>>, <<"new_id", TRUE>>, <<"bind vfio-pci", TRUE>>,
                           <<"iommu_group", f.link>> >>,
                        sys, b.sys)

\* BindDevicetoVFIO(bdf, hostDriver, vendorDeviceID); f says which of the
\* file operations the host lets succeed.  The steps taken are listed in
\* order, each with its outcome.
BindDevicetoVFIO(sys, hostDriver, id, f) ==
    LET u == WriteUnbind(sys, f.first)
        n == WriteNewID(u.sys, id, f.second, f.probe)
        b == WriteBind(n.sys, VfioPci, f.third)
    IN  IF ~u.ok
        THEN BindResult("BindDevicetoVFIO", hostDriver, id, TRUE, "",
                        << <<"unbind", FALSE>> >>, sys, u.sys)
        ELSE IF ~n.ok
        THEN BindResult("BindDevicetoVFIO", hostDriver, id, TRUE, "",
                        << <<"unbind", TRUE>>, <<"new_id", FALSE>> >>, sys, n.sys)
        ELSE IF ~f.link
        THEN BindResult("BindDevicetoVFIO", hostDriver, id, TRUE, "",
                        << <<"unbind", TRUE>>, <<"new_id", TRUE>>, <<"bind vfio-pci", b.ok>>,
                           <<"iommu_group", FALSE>> >>,
                        sys, b.sys)
        ELSE BindResult("BindDevicetoVFIO", hostDriver, id, FALSE, VfioDevPath(Base(IOMMUGroupLink)),
                        << <<"unbind", TRUE>>, <<"new_id", TRUE>>, <<"bind vfio-pci", b.ok>>,
                           <<"iommu_group", TRUE>> >>,
                        sys, b.sys)

\* (a failed remove_id write ignored)
BindDevicetoHostRemoveIDBestEffort(sys, hostDriver, id, f) ==
    LET u == WriteUnbind(sys, f.first)
        r == WriteRemoveID(u.sys, id, f.second)
        b == WriteBind(r.sys, hostDriver, f.third)
    IN  IF ~u.ok
        THEN BindResult("BindDevicetoHost", hostDriver, id, TRUE, "",
                        << <<"unbind", FALSE>> >>, sys, u.sys)
        ELSE BindResult("BindDevicetoHost", hostDriver, id, ~b.ok, "",
                        << <<"unbind", TRUE>>, <<"remove_id", r.ok>>, <<"bind host", b.ok>> >>,
                        sys, b.sys)

\* (BindDevicetoHost without the remove_id write)
BindDevicetoHostKeepsID(sys, hostDriver, id, f) ==
    LET u == WriteUnbind(sys, f.first)
        b == WriteBind(u.sys, hostDriver, f.third)
    IN  IF ~u.ok
        THEN BindResult("BindDevicetoHost", hostDriver, id, TRUE, "",
                        << <<"unbind", FALSE>> >>, sys, u.sys)
        ELSE BindResult("BindDevicetoHost", hostDriver, id, ~b.ok, "",
                        << <<"unbind", TRUE>>, <<"bind host", b.ok>> >>, sys, b.sys)

\* BindDevicetoHost(bdf, hostDriver, vendorDeviceID)
BindDevicetoHost(sys, hostDriver, id, f) ==
    LET u == WriteUnbind(sys, f.first)
        r == WriteRemoveID(u.sys, id, f.second)
        b == WriteBind(r.sys, hostDriver, f.third)
    IN  IF ~u.ok
        THEN BindResult("BindDevicetoHost", hostDriver, id, TRUE, "",
                        << <<"unbind", FALSE>> >>, sys, u.sys)
        ELSE IF ~r.ok
        THEN BindResult("BindDevicetoHost", hostDriver, id, TRUE, "",
                        << <<"unbind", TRUE>>, <<"remove_id", FALSE>> >>, sys, r.sys)
        ELSE BindResult("BindDevicetoHost", hostDriver, id, ~b.ok, "",
                        << <<"unbind", TRUE>>, <<"remove_id", TRUE>>, <<"bind host", b.ok>> >>,
                        sys, b.sys)

Faults == [first : BOOLEAN, second : BOOLEAN, third : BOOLEAN, probe : BOOLEAN, link : BOOLEAN]

InitBind ==
    /\ ConcIdle
    /\ PersistIdle
    /\ ParseIdle
    /\ LifeIdle
    /\ run = [d \in Devs |-> NoRun]
    /\ sysfs \in [driver : HostDrivers \cup {NoDriver, VfioPci}, ids : SUBSET VendorDeviceIDs]
    /\ bLast = NoBind
    /\ bPrev = NoBind

CallBindDevicetoVFIO ==
    \E hostDriver \in HostDrivers, id \in VendorDeviceIDs, f \in Faults :
        LET r == BindDevicetoVFIO(sysfs, hostDriver, id, f)
        IN  /\ sysfs' = r.sys
            /\ bLast' = r.call
            /\ bPrev' = bLast
            /\ UNCHANGED <<lifeVars, concVars, persistVars, parseVars>>

CallBindDevicetoHost ==
    \E hostDriver \in HostDrivers, id \in VendorDeviceIDs, f \in Faults :
        LET r == BindDevicetoHost(sysfs, hostDriver, id, f)
        IN  /\ sysfs' = r.sys
            /\ bLast' = r.call
            /\ bPrev' = bLast
            /\ UNCHANGED <<lifeVars, concVars, persistVars, parseVars>>

NextBind == CallBindDevicetoVFIO \/ CallBindDevicetoHost

SpecBind == InitBind /\ [][NextBind]_vars

(***************************************************************************)
(* GetVFIODetails, getMediatedBDF and GetBDF.  A string is the sequence    *)
(* of its characters.                                                      *)
(***************************************************************************)
Chars == {"/", ":", "x"}

Strings(n) == UNION {[1..k -> Chars] : k \in 0..n}

\* /sys/devices/pci0000:00/0000:00:02.0/<uuid>, a chunk of characters that
\* are neither "/" nor ":" written as one element
ExamplePath ==
    <<"/", "sys", "/", "devices", "/", "pci0000", ":", "00", "/",
      "0000", ":", "00", ":", "02.0", "/", "f79944e4-5a3d-11e8-99ce-479cbab002e4">>

\* config.SysBusPciDevicesPath
SysBusPciDevicesPath == <<"/", "sys", "/", "bus", "/", "pci", "/", "devices">>

\* the IOMMU group's devices directory that the member file lives in
IommuDevicesPath == <<"/", "sys", "/", "kernel", "/", "iommu_groups", "/", "42", "/", "devices">>

\* filepath.Join of a clean directory path and a file name
Join(dir, name) == IF name = <<>> THEN dir ELSE dir \o <<"/">> \o name

\* the index of the first sep in str, 0 when there is none
RECURSIVE Index(_, _)
Index(str, sep) ==
    IF str = <<>> THEN 0
    ELSE IF Head(str) = sep THEN 1
    ELSE LET i == Index(Tail(str), sep) IN IF i = 0 THEN 0 ELSE i + 1

\* strings.SplitN(str, sep, n) for a one-character sep: n < 0 splits at every
\* sep, n > 0 into at most n substrings, the last one the unsplit remainder
RECURSIVE SplitN(_, _, _)
SplitN(str, sep, n) ==
    LET i == Index(str, sep)
    IN  IF n = 0 THEN <<>>
        ELSE IF n = 1 \/ i = 0 THEN <<str>>
        ELSE <<SubSeq(str, 1, i - 1)>>
                 \o SplitN(SubSeq(str, i + 1, Len(str)), sep, IF n < 0 THEN n ELSE n - 1)

\* (the last token instead of the one before it)
getMediatedBDFTakesLast(deviceSysfsDev) ==
    LET tokens == SplitN(deviceSysfsDev, "/", -1)
    IN  IF Len(tokens) < 4 THEN <<>> ELSE tokens[Len(tokens)]

getMediatedBDF(deviceSysfsDev) ==
    LET tokens == SplitN(deviceSysfsDev, "/", -1)
    IN  IF Len(tokens) < 4 THEN <<>> ELSE tokens[Len(tokens) - 1]

GetBDF(deviceSysStr) ==
    LET tokens == SplitN(deviceSysStr, ":", 2)
    IN  IF Len(tokens) = 1 THEN <<>> ELSE tokens[2]

\* GetSysfsDev: the real path of the member's sysfs link, or an error
GetSysfsDev(realPath, linkErr) ==
    IF linkErr THEN [path |-> <<>>, err |-> TRUE] ELSE [path |-> realPath, err |-> FALSE]

\* GetVFIODetails(deviceFileName, iommuDevicesPath), given the classifier's
\* answer for the member (type, typeErr) and what its sysfs link resolves to
GetVFIODetails(deviceFileName, type, typeErr, realPath, linkErr) ==
    LET link == GetSysfsDev(realPath, linkErr)
    IN  IF typeErr
        THEN [NoDetails EXCEPT !.ran = TRUE, !.vfioDeviceType = type, !.err = TRUE]
        ELSE IF type = VFIOPCIDeviceNormalType
        THEN [ran |-> TRUE, deviceBDF |-> deviceFileName,
              deviceSysfsDev |-> Join(SysBusPciDevicesPath, deviceFileName),
              vfioDeviceType |-> type, err |-> FALSE]
        ELSE IF type = VFIOPCIDeviceMediatedType
        THEN [ran |-> TRUE, deviceBDF |-> GetBDF(getMediatedBDF(link.path)),
              deviceSysfsDev |-> link.path, vfioDeviceType |-> type, err |-> link.err]
        ELSE IF type = VFIOAPDeviceMediatedType
        THEN [ran |-> TRUE, deviceBDF |-> <<>>,
              deviceSysfsDev |-> link.path, vfioDeviceType |-> type, err |-> link.err]
        ELSE [NoDetails EXCEPT !.ran = TRUE, !.vfioDeviceType = type, !.err = TRUE]

MemberFileNames == { <<"x", ":", "x", ":", "x">>, <<"x">> }

InitParse ==
    /\ ConcIdle
    /\ PersistIdle
    /\ BindIdle
    /\ LifeIdle
    /\ run = [d \in Devs |-> NoRun]
    /\ gIn \in [deviceFileName : MemberFileNames,
                type : {VFIODeviceErrorType, VFIOPCIDeviceNormalType,
                        VFIOPCIDeviceMediatedType, VFIOAPDeviceMediatedType},
                typeErr : BOOLEAN,
                realPath : Strings(MaxPathLen) \cup {ExamplePath},
                linkErr : BOOLEAN]
    /\ (gIn.typeErr => gIn.type = VFIODeviceErrorType)
    /\ gOut = NoDetails

CallGetVFIODetails ==
    /\ ~gOut.ran
    /\ gOut' = GetVFIODetails(gIn.deviceFileName, gIn.type, gIn.typeErr, gIn.realPath, gIn.linkErr)
    /\ UNCHANGED <<gIn, lifeVars, concVars, persistVars, bindVars>>

NextParse == CallGetVFIODetails

SpecParse == InitParse /\ [][NextParse]_vars

(***************************************************************************)
(* Claims about Attach and Detach in sequential execution (Spec).          *)
(***************************************************************************)
HotPlugged == {d \in Devs : ~ColdPlug(d)}
ColdPlugged == {d \in Devs : ColdPlug(d)}

\* C1: for a hot-plug device whose receiver calls all succeed, HotplugAddDevice
\* is invoked exactly on the Attach calls that take the count from 0 to 1 and
\* HotplugRemoveDevice exactly on the Detach calls that take it from 1 to 0;
\* N Attach calls followed by N Detach calls, from count 0, make exactly one
\* add, one remove and leave the count at zero.
C1_AddOnFirstRemoveOnLast ==
    \A d \in HotPlugged :
        ~recvFailed[d] =>
            /\ (last.dev = d /\ last.op = "Attach") =>
                   ("HotplugAddDevice" \in last.calls
                        <=> (last.pre = 0 /\ AttachCount[d] = 1))
            /\ (last.dev = d /\ last.op = "Detach") =>
                   ("HotplugRemoveDevice" \in last.calls
                        <=> (last.pre = 1 /\ AttachCount[d] = 0))
            /\ hotAdds[d] = hotRemoves[d] + (IF AttachCount[d] > 0 THEN 1 ELSE 0)
            /\ (run[d].ok /\ run[d].att >= 1 /\ run[d].det = run[d].att) =>
                   (hotAdds[d] = 1 /\ hotRemoves[d] = 1 /\ AttachCount[d] = 0)

\* MaxAttach Attach calls followed by as many Detach calls have run on a
\* hot-plug device, the last of them the real detach.
C1_Witness ==
    \E d \in HotPlugged :
        /\ run[d].ok /\ run[d].att = MaxAttach /\ run[d].det = MaxAttach
        /\ last.dev = d /\ last.op = "Detach" /\ ~last.skip
        /\ hotAdds[d] = 1 /\ hotRemoves[d] = 1

\* C2: Detach on a device whose attach count is zero returns an error, leaves
\* the count at zero and VfioDevs as it was, and calls the receiver not at
\* all; the count is never negative.
C2_DetachAtZeroFails ==
    /\ \A d \in Devs : AttachCount[d] >= 0
    /\ (last.op = "Detach" /\ last.pre = 0) =>
           /\ last.err
           /\ AttachCount[last.dev] = 0
           /\ VfioDevs[last.dev] = last.vfioBefore
           /\ last.calls = {}

\* A Detach has run on a hot-plug device that was attached and fully
\* detached before.
C2_Witness ==
    /\ last.op = "Detach" /\ last.pre = 0 /\ last.err
    /\ last.dev \in HotPlugged /\ ~recvFailed[last.dev]
    /\ hotAdds[last.dev] = 1 /\ hotRemoves[last.dev] = 1
    /\ VfioDevs[last.dev] # <<>>

\* C3: a non-skipped Attach or Detach that fails returns the error with the
\* attach count as it was before the call: 0 for Attach, 1 for Detach.
C3_FailureRestoresCount ==
    (last.op \in {"Attach", "Detach"} /\ last.err /\ ~last.skip) =>
        /\ AttachCount[last.dev] = last.pre
        /\ last.op = "Attach" => AttachCount[last.dev] = 0
        /\ last.op = "Detach" => AttachCount[last.dev] = 1

\* A hot-plug Detach has failed at the receiver after an earlier failed Attach
\* was retried.
C3_Witness ==
    /\ last.op = "Detach" /\ last.err /\ ~last.skip
    /\ "HotplugRemoveDevice" \in last.calls
    /\ recvFailed[last.dev] /\ hotAdds[last.dev] >= 2

\* C4: no Detach of a cold-plugged device invokes HotplugRemoveDevice, and
\* the Detach that takes its count from 1 to 0 succeeds with the count at 0.
C4_ColdPlugNeverRemoved ==
    \A d \in ColdPlugged :
        /\ hotRemoves[d] = 0
        /\ (last.dev = d /\ last.op = "Detach") => "HotplugRemoveDevice" \notin last.calls
        /\ (last.dev = d /\ last.op = "Detach" /\ last.pre = 1) =>
               (~last.err /\ AttachCount[d] = 0)

\* The last owner of a cold-plugged device has detached it.
C4_Witness ==
    \E d \in ColdPlugged :
        /\ last.dev = d /\ last.op = "Detach" /\ last.pre = 1 /\ ~last.skip
        /\ AttachCount[d] = 0 /\ VfioDevs[d] # <<>>

(***************************************************************************)
(* Claims about the PCIe slot registry (Spec).                             *)
(***************************************************************************)
\* The BDFs the registry holds for the port of reservation i of the last
\* call, right before that reservation.
RecordedBefore(i) ==
    last.regBefore[last.log[i].port]
        \cup {last.log[j].bdf : j \in {k \in 1..(i - 1) : last.log[k].port = last.log[i].port}}

\* C5: a reservation returns the number of BDFs recorded for the port before
\* the insertion and then records the BDF; the k-th distinct BDF reserved on
\* a port gets index k-1 (0, 1, 2 in call order), each is in the port's set
\* afterwards, and the first reservation on a port gets 0 whatever the other
\* ports hold.
C5_IndexIsCountBeforeInsert ==
    /\ \A i \in DOMAIN last.log :
           /\ last.log[i].index = Cardinality(RecordedBefore(i))
           /\ last.log[i].bdf \in PCIeDevices[last.log[i].port]
           /\ RecordedBefore(i) = {} => last.log[i].index = 0
    /\ \A p \in Ports :
           /\ \A k \in DOMAIN firstRes[p] : firstRes[p][k].index = k - 1
           /\ {firstRes[p][k].bdf : k \in DOMAIN firstRes[p]} = PCIeDevices[p]

\* Three distinct BDFs have been reserved on one port and got 0, 1, 2, and
\* the last call made the first reservation on another port, index 0.
C5_Witness ==
    /\ Len(firstRes[RootPort]) = 3
    /\ <<firstRes[RootPort][1].index, firstRes[RootPort][2].index, firstRes[RootPort][3].index>> = <<0, 1, 2>>
    /\ \E i \in DOMAIN last.log :
           /\ last.log[i].port = SwitchPort /\ last.log[i].index = 0
           /\ last.regBefore[SwitchPort] = {} /\ last.regBefore[RootPort] # {}

\* Members of attached or once-attached devices that share a port and a bus
\* label although their BDFs differ.
LabelClashes ==
    {<<a, b>> \in (UNION {{<<d, i>> : i \in DOMAIN VfioDevs[d]} : d \in Devs})
                  \X (UNION {{<<d, i>> : i \in DOMAIN VfioDevs[d]} : d \in Devs}) :
        LET x == VfioDevs[a[1]][a[2]]
            y == VfioDevs[b[1]][b[2]]
        IN  /\ x.IsPCIe /\ y.IsPCIe /\ x.Port = y.Port
            /\ x.BDF # y.BDF /\ x.Bus = y.Bus}

\* C6: the bus indices handed out for a port are never reused: every index
\* a call hands out was not handed out for that port before, in an earlier
\* call or earlier in the same call, so no two members with different BDFs
\* on one port hold the same bus label.
C6_IndicesNeverReused ==
    [][ /\ \A i \in DOMAIN last'.log :
               /\ last'.log[i].index \notin issued[last'.log[i].port]
               /\ \A j \in 1..(i - 1) :
                      last'.log[j].port = last'.log[i].port
                          => last'.log[j].index < last'.log[i].index
        /\ LabelClashes' = {} ]_vars

(***************************************************************************)
(* Claims about concurrent Attach calls (SpecConc).                        *)
(***************************************************************************)
\* C7: concurrent slot reservation is safe: whatever the interleaving of two
\* Attach calls on different devices, once both have returned, distinct BDFs
\* on one port hold distinct bus indices and every reserved BDF is recorded
\* in its port's set.
C7_ConcurrentReservationSafe ==
    (\A p \in Procs : cpc[p] = "done") =>
           /\ LabelClashes = {}
           /\ \A d \in Devs : \A i \in DOMAIN VfioDevs[d] :
                  (VfioDevs[d][i].IsPCIe /\ VfioDevs[d][i].Bus # NoBus)
                      => VfioDevs[d][i].BDF \in PCIeDevices[VfioDevs[d][i].Port]

(***************************************************************************)
(* Claims about Save and Load (SpecPersist).                               *)
(***************************************************************************)
RecognizedTypes ==
    {VFIOPCIDeviceNormalType, VFIOPCIDeviceMediatedType, VFIOAPDeviceMediatedType}

\* C8: Save followed by Load into a fresh VFIODevice rebuilds the saved
\* VfioDevs of PCI-normal, PCI-mediated and AP-mediated members: as many
\* members, in the same order, a PCI member with the same ID, type, BDF and
\* SysfsDev, an AP-mediated member with its ID and SysfsDev and an empty BDF.
C8_SaveLoadRoundTrip ==
    (ppc = "loaded" /\ \A i \in DOMAIN pDev : pDev[i].Type \in RecognizedTypes) =>
        /\ Len(pLoaded) = Len(pDev)
        /\ \A i \in DOMAIN pDev :
               /\ pLoaded[i].ID = pDev[i].ID
               /\ pLoaded[i].SysfsDev = pDev[i].SysfsDev
               /\ pDev[i].Type # VFIOAPDeviceMediatedType =>
                      (pLoaded[i].Type = pDev[i].Type /\ pLoaded[i].BDF = pDev[i].BDF)
               /\ pDev[i].Type = VFIOAPDeviceMediatedType =>
                      (pLoaded[i].SysfsDev # "" /\ pLoaded[i].BDF = "")

\* A device of two PCI-normal members and an AP-mediated one has been saved
\* and loaded.
C8_Witness ==
    /\ ppc = "loaded" /\ Len(pDev) = 3 /\ Len(pLoaded) = 3
    /\ pDev[1].Type = VFIOPCIDeviceNormalType /\ pDev[2].Type = VFIOPCIDeviceNormalType
    /\ pDev[1].BDF # pDev[2].BDF
    /\ pDev[3].Type = VFIOAPDeviceMediatedType
    /\ pLoaded[2].BDF = pDev[2].BDF /\ pLoaded[3].SysfsDev = pDev[3].SysfsDev

(***************************************************************************)
(* Claims about the host driver rebind (SpecBind).                         *)
(***************************************************************************)
\* The last two calls were a successful BindDevicetoVFIO on a device bound to
\* hostDriver and then a successful BindDevicetoHost with the same arguments.
RebindPairDone ==
    /\ bPrev.op = "BindDevicetoVFIO" /\ ~bPrev.err
    /\ bLast.op = "BindDevicetoHost" /\ ~bLast.err
    /\ bLast.hostDriver = bPrev.hostDriver /\ bLast.id = bPrev.id
    /\ bPrev.pre.driver = bPrev.hostDriver

\* C9: a successful BindDevicetoVFIO on a device bound to hostDriver followed
\* by a successful BindDevicetoHost with the same arguments leaves the bound
\* driver and the IDs registered with vfio-pci as they were before
\* BindDevicetoVFIO, whether the explicit vfio-pci bind write succeeded or not.
C9_RebindPairRestoresSysfs ==
    RebindPairDone => sysfs = bPrev.pre

\* The pair has run on a host where another ID was registered with vfio-pci
\* before, and the explicit vfio-pci bind write failed because the new_id
\* write had bound the device already.
C9_Witness ==
    /\ RebindPairDone
    /\ sysfs.ids = {OtherID} /\ bLast.id = DeviceID
    /\ bLast.pre.driver = VfioPci
    /\ bPrev.writes[3] = <<"bind vfio-pci", FALSE>>

(***************************************************************************)
(* Claims about group-member resolution (SpecParse).                       *)
(***************************************************************************)
\* the positions of the character c in str
Positions(str, c) == {i \in DOMAIN str : str[i] = c}

SetMax(S) == CHOOSE m \in S : \A k \in S : k <= m

\* The second-to-last "/"-delimited segment of a path with at least one "/":
\* what lies between the last "/" and the "/" before it (or the start).
SecondToLastSegment(path) ==
    LET slashes == Positions(path, "/")
        lastSlash == SetMax(slashes)
        before == {i \in slashes : i < lastSlash}
        from == IF before = {} THEN 1 ELSE SetMax(before) + 1
    IN  SubSeq(path, from, lastSlash - 1)

\* A PCI-mediated member has been resolved and its sysfs link could be read.
MediatedResolved ==
    /\ gOut.ran /\ ~gIn.typeErr /\ ~gIn.linkErr
    /\ gIn.type = VFIOPCIDeviceMediatedType

\* C10 as claimed: for a PCI-mediated member the recorded BDF is exactly the
\* second-to-last "/"-delimited segment of the resolved path
\* (0000:00:02.0 for the example path), and it is empty, with no error, when
\* the path has fewer than 4 segments.
C10_BDFIsSecondToLastSegment ==
    MediatedResolved =>
        /\ ~gOut.err
        /\ IF Cardinality(Positions(gIn.realPath, "/")) + 1 < 4
           THEN gOut.deviceBDF = <<>>
           ELSE gOut.deviceBDF = SecondToLastSegment(gIn.realPath)

\* C10 as amended: the recorded BDF is what follows the first ":" of the
\* second-to-last segment (00:02.0 for the example path), empty when that
\* segment has no ":", and empty, with no error, when the path has fewer
\* than 4 segments.
C10_BDFIsSegmentAfterFirstColon ==
    MediatedResolved =>
        /\ ~gOut.err
        /\ IF Cardinality(Positions(gIn.realPath, "/")) + 1 < 4
           THEN gOut.deviceBDF = <<>>
           ELSE LET seg == SecondToLastSegment(gIn.realPath)
                    colons == Positions(seg, ":")
                IN  IF colons = {}
                    THEN gOut.deviceBDF = <<>>
                    ELSE \E c \in colons :
                             /\ \A k \in colons : c <= k
                             /\ gOut.deviceBDF = SubSeq(seg, c + 1, Len(seg))
        /\ gIn.realPath = ExamplePath => gOut.deviceBDF = <<"00", ":", "02.0">>

\* The example path has been resolved for a PCI-mediated member.
C10_Witness ==
    /\ MediatedResolved
    /\ gIn.realPath = ExamplePath
    /\ gOut.deviceBDF # <<>> /\ gOut.deviceSysfsDev = ExamplePath

(***************************************************************************)
(* Claims about VfioDevs, the receiver calls and the frame of Attach and   *)
(* Detach (Spec).                                                          *)
(***************************************************************************)
\* C11: VfioDevs of a device is empty unless an Attach on it has returned
\* success (no Load runs here); after an Attach that fails, at group
\* resolution or at the receiver, with no earlier successful Attach,
\* VfioDevs is still empty; VfioDevs never holds only part of the group.
C11_EmptyUntilAttached ==
    \A d \in Devs :
        /\ VfioDevs[d] # <<>> => d \in everAttached
        /\ (last.dev = d /\ last.op = "Attach" /\ last.err /\ d \notin everAttached)
               => VfioDevs[d] = <<>>
        /\ VfioDevs[d] # <<>> => Len(VfioDevs[d]) = Len(IOMMUGroup(d))

\* The PCIe members of a device's VfioDevs all carry a bus label and have
\* their BDF recorded for their port.
SlotsReserved(devs, reg) ==
    \A i \in DOMAIN devs :
        devs[i].IsPCIe => (devs[i].Bus # NoBus /\ devs[i].BDF \in reg[devs[i].Port])

C17_SkippedCallOnlyBumps ==
    [][ LET d == last'.dev
        IN  /\ (last'.op = "Attach" /\ AttachCount[d] >= 1) =>
                   /\ ~last'.err /\ last'.calls = {} /\ last'.log = <<>>
                   /\ AttachCount' = [AttachCount EXCEPT ![d] = @ + 1]
                   /\ UNCHANGED <<VfioDevs, PCIeDevices, hotAdds, hotRemoves, held>>
            /\ (last'.op = "Detach" /\ AttachCount[d] >= 2) =>
                   /\ ~last'.err /\ last'.calls = {} /\ last'.log = <<>>
                   /\ AttachCount' = [AttachCount EXCEPT ![d] = @ - 1]
                   /\ UNCHANGED <<VfioDevs, PCIeDevices, hotAdds, hotRemoves, held>>
      ]_vars

\* A second owner has detached a hot-plug device that two owners attached:
\* the count is back at 1 and the receiver still holds the device.
C17_Witness ==
    /\ last.op = "Detach" /\ last.pre = 2 /\ last.skip /\ ~last.err
    /\ last.dev \in HotPlugged /\ last.dev \in held
    /\ run[last.dev].ok /\ run[last.dev].att = 2 /\ run[last.dev].det = 1
    /\ AttachCount[last.dev] = 1 /\ VfioDevs[last.dev] # <<>>

\* C18: no Attach and no Detach removes a BDF from a port's set: every
\* port's set only grows, and an Attach that fails at the receiver leaves
\* every BDF it reserved recorded.
C18_RegistryOnlyGrows ==
    [][ /\ \A p \in Ports : PCIeDevices[p] \subseteq PCIeDevices'[p]
        /\ (last'.op = "Attach" /\ last'.err) =>
               \A i \in DOMAIN last'.log : last'.log[i].bdf \in PCIeDevices'[last'.log[i].port]
      ]_vars

\* A hot-plug device whose first Attach failed at the receiver was attached
\* again and then removed; the registry still holds the BDFs of its members.
C18_Witness ==
    \E d \in HotPlugged :
        /\ last.dev = d /\ last.op = "Detach" /\ ~last.skip /\ ~last.err
        /\ recvFailed[d] /\ hotAdds[d] = 2 /\ hotRemoves[d] = 1 /\ AttachCount[d] = 0
        /\ \A i \in DOMAIN VfioDevs[d] :
               VfioDevs[d][i].IsPCIe => VfioDevs[d][i].BDF \in PCIeDevices[VfioDevs[d][i].Port]
        /\ PCIeDevices[RootPort] # {}

(***************************************************************************)
(* Claims about the steps of the rebind functions (SpecBind).              *)
(***************************************************************************)
\* the names of the steps a rebind call took, in order
StepNames(call) == [i \in DOMAIN call.writes |-> call.writes[i][1]]

\* every step but the last one taken succeeded
EarlierStepsSucceeded(call) ==
    \A i \in 1..(Len(call.writes) - 1) : call.writes[i][2]

IsPrefix(a, b) == Len(a) <= Len(b) /\ a = SubSeq(b, 1, Len(a))

\* C13: BindDevicetoVFIO writes unbind, new_id, bind in this order and then
\* resolves the iommu_group link; a failed unbind or new_id write returns an
\* error and nothing later is done; the bind write is made whatever happens
\* to it and its failure changes nothing of the outcome; a link that cannot
\* be resolved returns an error; success returns /dev/vfio/<group>.
C13_VFIOBindSteps ==
    bLast.op = "BindDevicetoVFIO" =>
        LET w == bLast.writes
        IN  /\ Len(w) >= 1
            /\ IsPrefix(StepNames(bLast), <<"unbind", "new_id", "bind vfio-pci", "iommu_group">>)
            /\ w[1][2] => Len(w) >= 2
            /\ ~w[1][2] => (bLast.err /\ Len(w) = 1)
            /\ (Len(w) >= 2 /\ w[2][2]) => Len(w) = 4
            /\ (Len(w) >= 2 /\ ~w[2][2]) => (bLast.err /\ Len(w) = 2)
            /\ Len(w) = 4 => (bLast.err <=> ~w[4][2])
            /\ bLast.err => bLast.ret = ""
            /\ ~bLast.err => bLast.ret = <<"/dev/vfio/", "42">>

\* BindDevicetoVFIO has returned the group's path although its bind write
\* failed: the new_id write had bound the device to vfio-pci already.
C13_Witness ==
    /\ bLast.op = "BindDevicetoVFIO" /\ ~bLast.err
    /\ bLast.writes[3] = <<"bind vfio-pci", FALSE>>
    /\ bLast.ret = <<"/dev/vfio/", "42">>
    /\ sysfs.driver = VfioPci /\ bLast.pre.driver \in HostDrivers

\* C14: BindDevicetoHost writes unbind, remove_id, bind in this order; a
\* write is made only when all earlier ones succeeded, the first failing
\* write ends the call with an error, and the call succeeds only when all
\* three writes succeeded.
C14_HostBindSteps ==
    bLast.op = "BindDevicetoHost" =>
        LET w == bLast.writes
        IN  /\ Len(w) >= 1
            /\ IsPrefix(StepNames(bLast), <<"unbind", "remove_id", "bind host">>)
            /\ EarlierStepsSucceeded(bLast)
            /\ w[Len(w)][2] => Len(w) = 3
            /\ bLast.err <=> ~w[Len(w)][2]
            /\ ~bLast.err => (Len(w) = 3 /\ \A i \in 1..3 : w[i][2])
            /\ bLast.ret = ""

\* BindDevicetoHost has stopped at a failed remove_id write after releasing
\* the device from vfio-pci: the device is left without a driver.
C14_Witness ==
    /\ bLast.op = "BindDevicetoHost" /\ bLast.err
    /\ bLast.writes = << <<"unbind", TRUE>>, <<"remove_id", FALSE>> >>
    /\ bLast.pre.driver = VfioPci /\ sysfs.driver = NoDriver
    /\ bPrev.op = "BindDevicetoVFIO" /\ ~bPrev.err

(***************************************************************************)
(* Claims about Load on records of an unrecognized type and about          *)
(* repeated restarts (SpecPersist).                                        *)
(***************************************************************************)
\* the persisted records whose type tag Load recognizes, in order
RecognizedRecords == SelectSeq(pState, LAMBDA dev : dev.Type \in RecognizedTypes)

\* C15: Load drops a persisted record of an unrecognized type and nothing
\* else: VfioDevs holds one member for every record of a recognized type,
\* those before and those after the unrecognized one, in the order of the
\* records.
C15_LoadDropsOnlyUnrecognized ==
    ppc = "loaded" =>
        /\ Len(pLoaded) = Len(RecognizedRecords)
        /\ \A i \in DOMAIN pLoaded :
               /\ pLoaded[i].ID = RecognizedRecords[i].ID
               /\ pLoaded[i].SysfsDev = RecognizedRecords[i].SysfsDev

\* C20: a device rebuilt by Load, saved and loaded again is rebuilt with the
\* same VfioDevs: Load(Save(Load(Save(d)))) = Load(Save(d)) for a device d
\* of PCI-normal, PCI-mediated and AP-mediated members.
C20_RestoreIsRepeatable ==
    (ppc = "loaded" /\ pGen = 1) => pLoaded = pDev

(***************************************************************************)
(* Claims about Attach on devices rebuilt by Load (SpecRestore).           *)
(***************************************************************************)
\* C16: whenever Attach returns success, after the real attach or skipped
\* by the attach-count gate, also on a device rebuilt by Load, the device's
\* VfioDevs is not empty.
C16_SuccessMeansMembers ==
    (last.op = "Attach" /\ ~last.err) => VfioDevs[last.dev] # <<>>

(***************************************************************************)
(* Claims about two owners of one device (SpecOwners).                     *)
(***************************************************************************)
\* C19: with two owners attaching and detaching one hot-plug device
\* concurrently, whenever no call is in progress the attach count is above
\* zero exactly when the receiver holds the device, and HotplugRemoveDevice
\* is only ever called for a device the receiver holds.
C19_CountMatchesReceiver ==
    [][ /\ (\A p \in Procs : cpc'[p] = "idle") =>
               (AttachCount'[OwnedDev] > 0 <=> OwnedDev \in held')
        /\ hotRemoves'[OwnedDev] # hotRemoves[OwnedDev] => OwnedDev \in held
      ]_vars

====
